---- MODULE Spec2Model ----
(***************************************************************************)
(* Model of langchain_nvidia_trt/llms.py: the Triton TensorRT-LLM client.  *)
(*                                                                         *)
(*   - TritonTensorRTLLM._trim_batch_response  (pure text function)        *)
(*   - TritonTensorRTLLM._load_model           (readiness wait)            *)
(*   - TritonTensorRTLLM._stream, _stream_callback, stop_stream and        *)
(*     StreamingResponseGenerator.__next__     (callback -> queue bridge)  *)
(*                                                                         *)
(* The specifications share the variables:                                 *)
(*   SpecTrim                 the trimmer applied to bounded texts         *)
(*   SpecLoad / FairSpecLoad  calls of _load_model against a server        *)
(*   Spec                     one streaming call on a session              *)
(*   SpecTwo                  two streaming calls on the same session      *)
(***************************************************************************)
EXTENDS Integers, Sequences, FiniteSets, TLC

(***************************************************************************)
(* Text.  A Python str is modelled as a sequence of symbols.  The two      *)
(* markers the code searches for are symbols of their own: neither marker  *)
(* overlaps itself or the other ("[/INST]" begins with "[" and ends with   *)
(* "]", "</s>" begins with "<" and ends with ">"), so every string splits  *)
(* in exactly one way into marker occurrences and other characters.        *)
(***************************************************************************)
INST == "[/INST]"
EOS  == "</s>"
SP   == " "

MaxLen == 4

Alphabet == {INST, EOS, SP, "a"}

RECURSIVE SeqsUpTo(_, _)
SeqsUpTo(S, n) ==
    IF n = 0 THEN {<<>>}
    ELSE LET shorter == SeqsUpTo(S, n - 1)
         IN  shorter \cup {Append(t, c) : t \in {u \in shorter : Len(u) = n - 1}, c \in S}

Texts == SeqsUpTo(Alphabet, MaxLen)

(* Three longer arguments of the trimmer.  A word stands for its run of   *)
(* characters, none of which is whitespace or part of a marker.            *)
Example1 == << "...", INST, SP, "hello", SP, "world", EOS, SP, "extra" >>
Example2 == << "no", SP, "delimiter", SP, "text" >>
Example3 == << "...", INST, SP, "no", SP, "end", SP, "token" >>
Examples == {Example1, Example2, Example3}

(* str.find(sub) for a one-symbol marker: 0-based index of the first      *)
(* occurrence, -1 when absent.                                            *)
Find(t, sym) ==
    IF \E i \in 1..Len(t) : t[i] = sym
    THEN (CHOOSE i \in 1..Len(t) : t[i] = sym /\ \A j \in 1..(i - 1) : t[j] # sym) - 1
    ELSE -1

(* str.split(sep, 1): at most one split, at the first occurrence of sep.  *)
SplitOnce(t, sep) ==
    LET i == Find(t, sep)
    IN  IF i = -1 THEN << t >>
        ELSE << SubSeq(t, 1, i), SubSeq(t, i + 2, Len(t)) >>

(* str.strip(): leading and trailing whitespace removed.                  *)
RECURSIVE LStrip(_)
LStrip(t) == IF t # <<>> /\ Head(t) = SP THEN LStrip(Tail(t)) ELSE t

RECURSIVE RStrip(_)
RStrip(t) == IF t # <<>> /\ t[Len(t)] = SP THEN RStrip(SubSeq(t, 1, Len(t) - 1)) ELSE t

Strip(t) == RStrip(LStrip(t))

\* everything after the last occurrence of sep in t, all of t when absent
RECURSIVE AfterLast(_, _)
AfterLast(t, sep) ==
    IF Find(t, sep) = -1 THEN t
    ELSE AfterLast(SubSeq(t, Find(t, sep) + 2, Len(t)), sep)

\* Generated, were it to split at the last delimiter (rsplit, or no maxsplit)
Generated_AfterLast(result_str) == AfterLast(result_str, INST)

(* llms.py 289-290: split = result_str.split("[/INST]", 1); split[-1]     *)
Generated(result_str) ==
    LET split == SplitOnce(result_str, INST)
    IN  split[Len(split)]

\* _trim_batch_response, were it to strip the continuation on both paths
_trim_batch_response_AlwaysStrips(result_str) ==
    LET generated == Generated(result_str)
        end_token == Find(generated, EOS)
    IN  IF end_token = -1 THEN Strip(generated)
        ELSE Strip(SubSeq(generated, 1, end_token))

\* _trim_batch_response, were it to truncate at the marker and not strip
_trim_batch_response_NoStrip(result_str) ==
    LET generated == Generated(result_str)
        end_token == Find(generated, EOS)
    IN  IF end_token = -1 THEN generated
        ELSE SubSeq(generated, 1, end_token)

(* llms.py 285-295                                                         *)
_trim_batch_response(result_str) ==
    LET generated == Generated(result_str)
        end_token == Find(generated, EOS)
    IN  IF end_token = -1 THEN generated
        ELSE Strip(SubSeq(generated, 1, end_token))

VARIABLES
    \* ---- the trimmer under test
    tpc,            \* "call" before the trimmer ran, "done" after
    result_str,     \* its argument
    generated,      \* the continuation it isolates (line 290)
    trimmed,        \* its return value
    \* ---- _load_model
    lpc,            \* position of the caller inside _load_model
    ready,          \* the server's answer to is_model_ready right now
    now,            \* time.perf_counter()
    t0, t1,         \* the locals of _load_model
    loadRequests,   \* client.load_model calls made by the current call
    polled,         \* the current call ran the body of its while loop
    firstQuery,     \* what is_model_ready answered the current call at line 127
    lastQuery,      \* what is_model_ready answered the current call last
    sawReady,       \* is_model_ready answered true to the current call at least once
    calls,          \* calls of _load_model started so far
    \* ---- streaming
    model_name,     \* the configured model name (line 58)
    pc,             \* per streaming call: where its generator and consumer stand
    request_id,     \* per call: the identifier drawn at line 177
    force_batch,    \* per call: the force_batch bound in its generator and callback
    stop_words,     \* per call: the stop words bound in its generator and callback
    queue,          \* per call: the contents of its StreamingResponseGenerator
    observed,       \* per call: the tokens __next__ returned to the consumer
    sink,           \* the call whose callback the session has armed, NoSink if none
    live,           \* the calls whose generation the server is still answering
    wire,           \* the requests async_stream_infer sent, in order
    closes,         \* client.stop_stream() calls made on the session
    delivered,      \* per call: the chunks the server delivered for its request
    asked,          \* per call: what is_model_ready answered it, first and last
    \* ---- the request builders
    bpc,            \* "call" before a builder ran, "built" after, "stopped" after the stop request
    fields,         \* the generation fields of the object (lines 61-67)
    seed,           \* self.seed (line 69)
    kwargs,         \* the keyword arguments of the call
    prompt,         \* the prompt of the call
    mode,           \* "stream" for the builder call of _stream, "single" for that of _request
    inputs,         \* the list _generate_inputs returned
    stop_request,   \* the arguments _send_stop_signals passed to async_stream_infer
    \* ---- _generate and _request
    gpc,            \* position of the caller inside _generate
    gasked,         \* what is_model_ready answered the call, in order
    todo,           \* prompts still to be sent
    infers,         \* the requests client.infer sent, in order
    result_strs,    \* per request sent: the decoded text_output (line 225)
    generations     \* per request sent: the text _request returned

trimVars == << tpc, result_str, generated, trimmed >>
loadVars == << lpc, ready, now, t0, t1, loadRequests, polled, firstQuery, lastQuery, sawReady, calls >>
queryVars == << firstQuery, lastQuery, sawReady >>
streamVars == << model_name, pc, request_id, force_batch, stop_words, queue,
                observed, sink, live, wire, closes, delivered, asked >>
buildVars == << bpc, fields, seed, kwargs, prompt, mode, inputs, stop_request >>
generateVars == << gpc, gasked, todo, infers, result_strs, generations >>
vars == << trimVars, loadVars, streamVars, buildVars, generateVars >>

(***************************************************************************)
(* The trimmer.                                                            *)
(***************************************************************************)
TrimIdle == tpc = "unused" /\ result_str = <<>> /\ generated = <<>> /\ trimmed = <<>>

TrimCall ==
    /\ tpc = "call"
    /\ generated' = Generated(result_str)
    /\ trimmed' = _trim_batch_response(result_str)
    /\ tpc' = "done"
    /\ UNCHANGED << result_str, loadVars, streamVars, buildVars, generateVars >>

(***************************************************************************)
(* _load_model (llms.py 125-139) against a server whose readiness other    *)
(* parties may change at any time.                                         *)
(***************************************************************************)
LoadTimeout == 2
MaxCalls == 2

LoadIdle ==
    /\ lpc = "unused" /\ now = 0 /\ t0 = 0 /\ t1 = 0
    /\ loadRequests = 0 /\ polled = FALSE /\ calls = 0
    /\ firstQuery = "none" /\ lastQuery = "none" /\ sawReady = FALSE

\* the caller records an answer of is_model_ready
Answer(b) == IF b THEN "true" ELSE "false"

Query ==
    /\ lastQuery' = Answer(ready)
    /\ sawReady' = (sawReady \/ ready)
    /\ firstQuery' = IF firstQuery = "none" THEN Answer(ready) ELSE firstQuery

\* LoadCheck, were it to request the load whatever is_model_ready answers
LoadCheck_AlwaysLoads ==
    /\ lpc = "check"
    /\ Query
    /\ lpc' = "load"
    /\ UNCHANGED << ready, now, t0, t1, loadRequests, polled, calls, trimVars, buildVars, generateVars, streamVars >>

\* line 127-128: if self.client.is_model_ready(model_name): return
LoadCheck ==
    /\ lpc = "check"
    /\ Query
    /\ lpc' = IF ready THEN "returned" ELSE "load"
    /\ UNCHANGED << ready, now, t0, t1, loadRequests, polled, calls, trimVars, buildVars, generateVars, streamVars >>

\* lines 130-132: load_model; t0 = perf_counter(); t1 = t0
LoadRequest ==
    /\ lpc = "load"
    /\ loadRequests' = loadRequests + 1
    /\ t0' = now
    /\ t1' = now
    /\ lpc' = "poll"
    /\ UNCHANGED << ready, now, polled, queryVars, calls, trimVars, buildVars, generateVars, streamVars >>

\* lines 133-134: while not is_model_ready() and t1 - t0 < timeout: t1 = perf_counter()
LoadPoll ==
    /\ lpc = "poll"
    /\ Query
    /\ IF ~ready /\ t1 - t0 < LoadTimeout
       THEN /\ t1' = now
            /\ polled' = TRUE
            /\ lpc' = "poll"
       ELSE /\ lpc' = "final"
            /\ UNCHANGED << t1, polled >>
    /\ UNCHANGED << ready, now, t0, loadRequests, calls, trimVars, buildVars, generateVars, streamVars >>

\* LoadFinal, were it to swallow the timeout
LoadFinal_NeverRaises ==
    /\ lpc = "final"
    /\ Query
    /\ lpc' = "returned"
    /\ UNCHANGED << ready, now, t0, t1, loadRequests, polled, calls, trimVars, buildVars, generateVars, streamVars >>

\* lines 136-139: if not is_model_ready(): raise TritonTensorRTRuntimeError
LoadFinal ==
    /\ lpc = "final"
    /\ Query
    /\ lpc' = IF ~ready THEN "raised" ELSE "returned"
    /\ UNCHANGED << ready, now, t0, t1, loadRequests, polled, calls, trimVars, buildVars, generateVars, streamVars >>

\* a further call of _load_model, once the previous one is over
LoadCall ==
    /\ lpc \in {"returned", "raised"}
    /\ calls < MaxCalls
    /\ calls' = calls + 1
    /\ lpc' = "check"
    /\ loadRequests' = 0 /\ polled' = FALSE
    /\ firstQuery' = "none" /\ lastQuery' = "none" /\ sawReady' = FALSE
    /\ UNCHANGED << ready, now, t0, t1, trimVars, buildVars, generateVars, streamVars >>

\* the server finishes loading the model, or another party loads it
ServerReady ==
    /\ lpc \in {"check", "load", "poll", "final"}
    /\ ~ready
    /\ ready' = TRUE
    /\ UNCHANGED << lpc, now, t0, t1, loadRequests, polled, queryVars, calls, trimVars, buildVars, generateVars, streamVars >>

\* another party unloads the model
ServerUnload ==
    /\ lpc \in {"check", "load", "poll", "final"}
    /\ ready
    /\ ready' = FALSE
    /\ UNCHANGED << lpc, now, t0, t1, loadRequests, polled, queryVars, calls, trimVars, buildVars, generateVars, streamVars >>

\* the wall clock advances while the caller polls (only t1 - t0 is ever read)
Tick ==
    /\ lpc = "poll"
    /\ now - t0 < LoadTimeout
    /\ now' = now + 1
    /\ UNCHANGED << lpc, ready, t0, t1, loadRequests, polled, queryVars, calls, trimVars, buildVars, generateVars, streamVars >>

LoadStep == LoadCheck \/ LoadRequest \/ LoadPoll \/ LoadFinal

(***************************************************************************)
(* The streaming bridge: _stream (166-204), _stream_callback (338-365),    *)
(* stop_stream (367-373), StreamingResponseGenerator (376-405).            *)
(*                                                                         *)
(* The session (self.client) holds at most one armed callback: line 186    *)
(* hands start_stream a callback bound to one queue and no request         *)
(* identifier, and client.stop_stream() (line 373) takes no argument, it   *)
(* closes the session's stream.  Chunks reach a consumer only through the  *)
(* callback that is armed when they are delivered.                         *)
(***************************************************************************)
Streams == {1, 2}
NoSink == 0
ModelNames == {"ensemble", "tensorrt_llm"}

MaxRequestId == 2
MaxChunks == 3

\* line 177: random.randint(1, 9999999), scaled down
RequestIds == 1..MaxRequestId

\* line 175: the caller's stop list, or self.stop (default ["</s>"], line 70)
StopWordSets == { {<< EOS >>}, {<< "a" >>} }

(* What result.as_numpy("text_output") yields: None, or an array of        *)
(* encoded tokens.                                                         *)
NoArray == [present |-> FALSE, tokens |-> << >>]
Arrays ==
    { [present |-> TRUE, tokens |-> ts] :
        ts \in { << << "a" >> >>, << << EOS >> >>, << << "a" >>, << EOS >> >> } }

(* One invocation of the callback by the transport: an error value, or a   *)
(* response with or without "outputs", whose buffer decodes or not (bad),  *)
(* and the triton_final_response flag.                                     *)
ErrorChunk ==
    [error |-> TRUE, outputs |-> FALSE, bad |-> FALSE, np_res |-> NoArray, final |-> FALSE]

DataChunks ==
    { [error |-> FALSE, outputs |-> o, bad |-> b, np_res |-> a, final |-> f] :
        o \in BOOLEAN, b \in BOOLEAN, a \in Arrays \cup {NoArray}, f \in BOOLEAN }

Chunks ==
    {ErrorChunk} \cup
    { c \in DataChunks :
        /\ (~c.outputs => ~c.bad /\ c.np_res = NoArray)
        /\ (c.bad => c.np_res = NoArray) }

\* the chunks of the two-call specification: a text, and the bare final flag
ChunksTwo ==
    { c \in Chunks :
        /\ ~c.error /\ ~c.bad
        /\ \/ c.outputs /\ ~c.final /\ c.np_res.tokens = << << "a" >> >>
           \/ ~c.outputs /\ c.final }

RECURSIVE Join(_)
Join(ts) == IF ts = << >> THEN << >> ELSE Head(ts) \o Join(Tail(ts))

\* lines 323-336, for a response that decodes
_process_result(np_res) ==
    IF np_res.present THEN Join(np_res.tokens) ELSE << >>

(* Queue entries.  nil is Python's None; val is the string otherwise.  err *)
(* and src are history only: whether the entry is the transport's error    *)
(* value, and the call whose request the chunk answered.                   *)
ErrorValue == << "error" >>
Sentinel(src) == [nil |-> TRUE, val |-> << >>, err |-> FALSE, src |-> src]
TextEntry(t, src) == [nil |-> FALSE, val |-> t, err |-> FALSE, src |-> src]
ErrorEntry(src) == [nil |-> FALSE, val |-> ErrorValue, err |-> TRUE, src |-> src]

\* lines 354-356: the text the callback compares with the stop words
Response(fb, c) ==
    IF fb THEN _trim_batch_response(_process_result(c.np_res))
    ELSE _process_result(c.np_res)

\* _stream_callback, were it to test the final flag before the outputs
_stream_callback_SentinelFirst(fb, sw, c, src) ==
    IF c.error THEN << ErrorEntry(src) >>
    ELSE IF c.outputs /\ c.bad THEN << >>
    ELSE (IF c.final THEN << Sentinel(src) >> ELSE << >>)
         \o (IF c.outputs
             THEN IF Response(fb, c) \in sw
                  THEN << Sentinel(src) >>
                  ELSE << TextEntry(Response(fb, c), src) >>
             ELSE << >>)

\* _stream_callback, were it to put the text without looking at the stop words
_stream_callback_NoStopCheck(fb, sw, c, src) ==
    IF c.error THEN << ErrorEntry(src) >>
    ELSE IF c.outputs /\ c.bad THEN << >>
    ELSE (IF c.outputs THEN << TextEntry(Response(fb, c), src) >> ELSE << >>)
         \o (IF c.final THEN << Sentinel(src) >> ELSE << >>)

(* lines 338-365: what one invocation puts on result_queue, in order.  A   *)
(* buffer that does not decode raises at line 354, before any put.         *)
_stream_callback(fb, sw, c, src) ==
    IF c.error THEN << ErrorEntry(src) >>
    ELSE IF c.outputs /\ c.bad THEN << >>
    ELSE (IF c.outputs
          THEN IF Response(fb, c) \in sw
               THEN << Sentinel(src) >>
               ELSE << TextEntry(Response(fb, c), src) >>
          ELSE << >>)
         \o (IF c.final THEN << Sentinel(src) >> ELSE << >>)

\* _send_stop_signals, were it to draw an identifier of its own
_send_stop_signals_OtherId(model, rid) ==
    Append(wire, [kind |-> "stop", model |-> model, rid |-> 0])

\* lines 297-305: the stop request async_stream_infer sends
_send_stop_signals(model, rid) ==
    Append(wire, [kind |-> "stop", model |-> model, rid |-> rid])

loadRest == << lpc, now, t0, t1, loadRequests, polled, firstQuery, lastQuery, sawReady, calls >>

StreamIdle ==
    /\ model_name = "ensemble"
    /\ pc = [s \in Streams |-> "unused"]
    /\ request_id = [s \in Streams |-> 0]
    /\ force_batch = [s \in Streams |-> FALSE]
    /\ stop_words = [s \in Streams |-> {}]
    /\ queue = [s \in Streams |-> << >>]
    /\ observed = [s \in Streams |-> << >>]
    /\ sink = NoSink
    /\ live = {}
    /\ wire = << >>
    /\ closes = 0
    /\ delivered = [s \in Streams |-> << >>]
    /\ asked = [s \in Streams |-> << >>]

(* line 174: self._load_model(self.model_name), as one step.  It returns   *)
(* at once when the model is ready; otherwise it requests the load and     *)
(* polls, and either the model became ready (it returns) or the timeout    *)
(* passed (it raises, and the call is over before anything is sent).       *)
LoadModelCall(s) ==
    /\ pc[s] = "idle"
    /\ \E becomes \in BOOLEAN :
         /\ ready' = (ready \/ becomes)
         /\ asked' = [asked EXCEPT ![s] = IF ready THEN << TRUE >> ELSE << FALSE, becomes >>]
         /\ pc' = [pc EXCEPT ![s] = IF ready \/ becomes THEN "loaded" ELSE "raised"]
    /\ UNCHANGED << model_name, request_id, force_batch, stop_words, queue, observed,
                    sink, live, wire, closes, delivered, trimVars, buildVars, generateVars, loadRest >>

(* lines 175-193: stop words, request identifier, the generator, and       *)
(* client.start_stream(callback).  On a session whose stream is already    *)
(* open the transport either refuses the call (it raises) or arms the new  *)
(* callback in place of the old one.                                       *)
start_stream(s, fb) ==
    /\ pc[s] = "loaded"
    /\ \E rid \in RequestIds, sw \in StopWordSets, accepts \in BOOLEAN :
         /\ request_id' = [request_id EXCEPT ![s] = rid]
         /\ stop_words' = [stop_words EXCEPT ![s] = sw]
         /\ force_batch' = [force_batch EXCEPT ![s] = fb]
         /\ IF sink = NoSink \/ accepts
            THEN sink' = s /\ pc' = [pc EXCEPT ![s] = "armed"]
            ELSE sink' = sink /\ pc' = [pc EXCEPT ![s] = "raised"]
    /\ UNCHANGED << model_name, asked, queue, observed, live, wire, closes, delivered,
                    ready, trimVars, buildVars, generateVars, loadRest >>

\* _stream binds force_batch=False (lines 181, 190)
_stream(s) == start_stream(s, FALSE)

\* a caller that builds the generator and the callback with force_batch=True
\* (the parameters at lines 341 and 383)
ForcedBatchStream(s) == start_stream(s, TRUE)

\* async_stream_infer, were _stream to submit the request before start_stream
async_stream_infer_BeforeArming(s) ==
    /\ pc[s] = "loaded"
    /\ wire' = Append(wire, [kind |-> "generate", model |-> model_name,
                              rid |-> request_id[s]])
    /\ live' = live \cup {s}
    /\ pc' = [pc EXCEPT ![s] = "pulling"]
    /\ UNCHANGED << model_name, asked, request_id, force_batch, stop_words, queue, observed,
                    sink, closes, delivered, ready, trimVars, buildVars, generateVars, loadRest >>

\* lines 194-199: the generation request; it needs the session's stream open
async_stream_infer(s) ==
    /\ pc[s] = "armed"
    /\ IF sink # NoSink
       THEN /\ wire' = Append(wire, [kind |-> "generate", model |-> model_name,
                                     rid |-> request_id[s]])
            /\ live' = live \cup {s}
            /\ pc' = [pc EXCEPT ![s] = "pulling"]
       ELSE /\ pc' = [pc EXCEPT ![s] = "raised"]
            /\ UNCHANGED << wire, live >>
    /\ UNCHANGED << model_name, asked, request_id, force_batch, stop_words, queue, observed,
                    sink, closes, delivered, ready, trimVars, buildVars, generateVars, loadRest >>

(* The transport delivers chunk c of call s's request: it invokes the      *)
(* armed callback, which puts on the queue bound in it.  After the final   *)
(* flag or an error the server sends nothing more for that request.        *)
Deliver(s, c) ==
    /\ s \in live
    /\ sink # NoSink
    /\ Len(delivered[s]) < MaxChunks
    /\ delivered' = [delivered EXCEPT ![s] = Append(@, c)]
    /\ queue' = [queue EXCEPT ![sink] =
                    @ \o _stream_callback(force_batch[sink], stop_words[sink], c, s)]
    /\ live' = IF c.error \/ c.final THEN live \ {s} ELSE live
    /\ UNCHANGED << model_name, asked, pc, request_id, force_batch, stop_words, observed,
                    sink, wire, closes, ready, trimVars, buildVars, generateVars, loadRest >>

\* __next__, were the loop of _stream to pull again after StopIteration
__next___PullsAfterEnd(s) ==
    /\ pc[s] \in {"pulling", "done"}
    /\ queue[s] # << >>
    /\ LET val == Head(queue[s])
           signal == ~force_batch[s]
       IN  /\ queue' = [queue EXCEPT ![s] = Tail(@)]
           /\ IF val.nil \/ val.val \in stop_words[s]
              THEN /\ UNCHANGED observed
                   /\ IF signal /\ sink = NoSink
                      THEN /\ pc' = [pc EXCEPT ![s] = "raised"]
                           /\ UNCHANGED << wire, sink, live, closes >>
                      ELSE /\ wire' = IF signal
                                      THEN _send_stop_signals("tensorrt_llm", request_id[s])
                                      ELSE wire
                           /\ sink' = NoSink
                           /\ live' = {}
                           /\ closes' = closes + 1
                           /\ pc' = [pc EXCEPT ![s] = "done"]
              ELSE /\ observed' = [observed EXCEPT ![s] = Append(@, val)]
                   /\ UNCHANGED << pc, wire, sink, live, closes >>
    /\ UNCHANGED << model_name, asked, request_id, force_batch, stop_words, delivered,
                    ready, trimVars, buildVars, generateVars, loadRest >>

(* lines 397-405 and the loop at 201-204: one pull.  self.get() blocks on  *)
(* an empty queue.  On None or a stop word: TritonTensorRTLLM.stop_stream  *)
(* (367-373) sends the stop request unless force_batch, closes the         *)
(* session's stream, and StopIteration ends the generator.  The stop       *)
(* request needs the session's stream open; without it the send raises.    *)
__next__(s) ==
    /\ pc[s] = "pulling"
    /\ queue[s] # << >>
    /\ LET val == Head(queue[s])
           signal == ~force_batch[s]
       IN  /\ queue' = [queue EXCEPT ![s] = Tail(@)]
           /\ IF val.nil \/ val.val \in stop_words[s]
              THEN /\ UNCHANGED observed
                   /\ IF signal /\ sink = NoSink
                      THEN /\ pc' = [pc EXCEPT ![s] = "raised"]
                           /\ UNCHANGED << wire, sink, live, closes >>
                      ELSE /\ wire' = IF signal
                                      THEN _send_stop_signals("tensorrt_llm", request_id[s])
                                      ELSE wire
                           /\ sink' = NoSink
                           /\ live' = {}
                           /\ closes' = closes + 1
                           /\ pc' = [pc EXCEPT ![s] = "done"]
              ELSE /\ observed' = [observed EXCEPT ![s] = Append(@, val)]
                   /\ UNCHANGED << pc, wire, sink, live, closes >>
    /\ UNCHANGED << model_name, asked, request_id, force_batch, stop_words, delivered,
                    ready, trimVars, buildVars, generateVars, loadRest >>

(* The consumer stops iterating after a token it was given (break, or      *)
(* close() of the generator suspended at the yield of line 202): nothing   *)
(* in _stream runs on that path.                                           *)
Abandon(s) ==
    /\ pc[s] = "pulling"
    /\ observed[s] # << >>
    /\ pc' = [pc EXCEPT ![s] = "abandoned"]
    /\ UNCHANGED << model_name, asked, request_id, force_batch, stop_words, queue, observed,
                    sink, live, wire, closes, delivered, ready, trimVars, buildVars, generateVars, loadRest >>

(***************************************************************************)
(* The request builders: _get_invocation_params (108-109),                 *)
(* _prepare_tensor (234-243), _generate_inputs (245-283),                  *)
(* _send_stop_signals (297-305), _generate_stop_signals (307-321).         *)
(*                                                                         *)
(* A numpy array is its element type, its shape and its elements in        *)
(* row-major order.  astype changes the element type; the parameters are   *)
(* drawn from values the target type holds exactly, so the elements stay.  *)
(***************************************************************************)
BuildIdle ==
    /\ bpc = "unused" /\ fields = << >> /\ seed = 0 /\ kwargs = << >> /\ prompt = ""
    /\ mode = "none" /\ inputs = << >> /\ stop_request = << >>

\* np.array([x]) and np.array([[x]])
np_array(x) == [dtype |-> "inferred", shape |-> << 1 >>, data |-> << x >>]
np_array2(x) == [dtype |-> "inferred", shape |-> << 1, 1 >>, data |-> << x >>]
astype(a, dtype) == [a EXCEPT !.dtype = dtype]
\* a.reshape((1, -1))
reshape(a) == [a EXCEPT !.shape = << 1, Len(a.data) >>]

\* tritonclient.utils.np_to_triton_dtype, on the element types used here
np_to_triton_dtype(dtype) ==
    CASE dtype = "object" -> "BYTES"
      [] dtype = "uint32" -> "UINT32"
      [] dtype = "uint64" -> "UINT64"
      [] dtype = "int32" -> "INT32"
      [] dtype = "float32" -> "FP32"
      [] dtype = "bool" -> "BOOL"

\* lines 234-243
_prepare_tensor(name, input_data) ==
    [name |-> name, shape |-> input_data.shape,
     datatype |-> np_to_triton_dtype(input_data.dtype), data |-> input_data.data]

\* lines 88-97
_model_default_parameters == fields

\* {**a, **b}
Merge(a, b) ==
    [k \in DOMAIN a \cup DOMAIN b |-> IF k \in DOMAIN b THEN b[k] ELSE a[k]]

\* lines 108-109
_get_invocation_params(kw) == Merge(_model_default_parameters, kw)

\* a keyword argument of _generate_inputs, or its default (lines 247-255)
Arg(params, k, default) == IF k \in DOMAIN params THEN params[k] ELSE default

\* _generate_inputs, were it to take the streaming flag from its default
_generate_inputs_DefaultStream(params, stream) ==
    LET one(name, k, d, t) ==
            _prepare_tensor(name, reshape(astype(np_array(Arg(params, k, d)), t)))
    IN  << _prepare_tensor("text_input", astype(np_array2(params["prompt"]), "object")),
           one("max_tokens", "tokens", 300, "uint32"),
           one("top_k", "top_k", 1, "uint32"),
           one("top_p", "top_p", 0, "float32"),
           one("temperature", "temperature", 1, "float32"),
           one("length_penalty", "length_penalty", 1, "float32"),
           one("repetition_penalty", "repetition_penalty", 1, "float32"),
           _prepare_tensor("random_seed", reshape(astype(np_array(seed), "uint64"))),
           one("beam_width", "beam_width", 1, "uint32"),
           _prepare_tensor("stream", astype(np_array2(TRUE), "bool")) >>

(* lines 245-283.  params holds the keyword arguments of the call, the     *)
(* prompt as [[prompt]] among them.                                        *)
_generate_inputs(params, stream) ==
    LET one(name, k, d, t) ==
            _prepare_tensor(name, reshape(astype(np_array(Arg(params, k, d)), t)))
    IN  << _prepare_tensor("text_input", astype(np_array2(params["prompt"]), "object")),
           one("max_tokens", "tokens", 300, "uint32"),
           one("top_k", "top_k", 1, "uint32"),
           one("top_p", "top_p", 0, "float32"),
           one("temperature", "temperature", 1, "float32"),
           one("length_penalty", "length_penalty", 1, "float32"),
           one("repetition_penalty", "repetition_penalty", 1, "float32"),
           _prepare_tensor("random_seed", reshape(astype(np_array(seed), "uint64"))),
           one("beam_width", "beam_width", 1, "uint32"),
           _prepare_tensor("stream", astype(np_array2(stream), "bool")) >>

\* what np.empty([1, 1], dtype=np.int32) may hold: whatever the memory held
Int32Sample == {0, 7, -1}

\* _generate_stop_signals, were input_lengths to carry a length of one
_generate_stop_signals_LengthOne(junk) ==
    << [name |-> "input_ids", shape |-> << 1, 1 >>, datatype |-> "INT32", data |-> << junk >>],
       [name |-> "input_lengths", shape |-> << 1, 1 >>, datatype |-> "INT32", data |-> << 1 >>],
       [name |-> "request_output_len", shape |-> << 1, 1 >>, datatype |-> "UINT32", data |-> << 0 >>],
       [name |-> "stop", shape |-> << 1, 1 >>, datatype |-> "BOOL", data |-> << TRUE >>] >>

(* lines 307-321.  np.empty allocates the one element of input_ids and     *)
(* does not initialise it: junk is the value found there.                  *)
_generate_stop_signals(junk) ==
    << [name |-> "input_ids", shape |-> << 1, 1 >>, datatype |-> "INT32", data |-> << junk >>],
       [name |-> "input_lengths", shape |-> << 1, 1 >>, datatype |-> "INT32", data |-> << 0 >>],
       [name |-> "request_output_len", shape |-> << 1, 1 >>, datatype |-> "UINT32", data |-> << 0 >>],
       [name |-> "stop", shape |-> << 1, 1 >>, datatype |-> "BOOL", data |-> << TRUE >>] >>

\* lines 173 and 183: the builder call of _stream
StreamInputs ==
    /\ bpc = "call"
    /\ inputs' = _generate_inputs(
                    _get_invocation_params(Merge(kwargs, [prompt |-> prompt])), TRUE)
    /\ mode' = "stream"
    /\ bpc' = "built"
    /\ UNCHANGED << fields, seed, kwargs, prompt, stop_request,
                    trimVars, loadVars, streamVars, generateVars >>

\* lines 148, 154 and 217: the builder call of _request under _generate
RequestInputs ==
    /\ bpc = "call"
    /\ inputs' = _generate_inputs(
                    Merge(_get_invocation_params(kwargs), [prompt |-> prompt]), FALSE)
    /\ mode' = "single"
    /\ bpc' = "built"
    /\ UNCHANGED << fields, seed, kwargs, prompt, stop_request,
                    trimVars, loadVars, streamVars, generateVars >>

\* lines 297-305: the arguments of the async_stream_infer call that stops a stream
SendStopSignals ==
    /\ bpc = "built"
    /\ mode = "stream"
    /\ \E model \in ModelNames, rid \in RequestIds, junk \in Int32Sample :
         stop_request' = [model_name |-> model,
                          inputs |-> _generate_stop_signals(junk),
                          request_id |-> rid,
                          parameters |-> [Streaming |-> TRUE]]
    /\ bpc' = "stopped"
    /\ UNCHANGED << fields, seed, kwargs, prompt, mode, inputs,
                    trimVars, loadVars, streamVars, generateVars >>

(***************************************************************************)
(* Single-shot generation: _generate (141-164), _request (208-226).        *)
(***************************************************************************)
MaxPrompts == 2

GenerateIdle ==
    /\ gpc = "unused" /\ gasked = << >> /\ todo = 0
    /\ infers = << >> /\ result_strs = << >> /\ generations = << >>

\* line 151: self._load_model(self.model_name), as one step (see LoadModelCall)
GenerateLoad ==
    /\ gpc = "idle"
    /\ \E becomes \in BOOLEAN :
         /\ ready' = (ready \/ becomes)
         /\ gasked' = IF ready THEN << TRUE >> ELSE << FALSE, becomes >>
         /\ gpc' = IF ready \/ becomes THEN "request" ELSE "raised"
    /\ UNCHANGED << todo, infers, result_strs, generations,
                    trimVars, loadRest, streamVars, buildVars >>

\* what result.as_numpy("text_output") yields for a single-shot request
ResultArrays == { a \in Arrays : Len(a.tokens) = 2 } \cup { a \in Arrays : a.tokens = << << "a" >> >> }

\* _request, were it to send without asking whether the model is ready
_request_NoReadyCheck ==
    /\ gpc = "request"
    /\ \E np_res \in ResultArrays :
         /\ gasked' = gasked
         /\ infers' = Append(infers, [kind |-> "infer", model |-> model_name])
         /\ result_strs' = Append(result_strs, Join(np_res.tokens))
         /\ generations' = Append(generations, _trim_batch_response(Join(np_res.tokens)))
         /\ todo' = todo - 1
         /\ gpc' = IF todo = 1 THEN "done" ELSE "request"
    /\ UNCHANGED << ready, trimVars, loadRest, streamVars, buildVars >>

\* _request, were it to return the decoded text as it is
_request_NoTrim ==
    /\ gpc = "request"
    /\ IF ~ready
       THEN /\ gasked' = Append(gasked, FALSE)
            /\ gpc' = "raised"
            /\ UNCHANGED << todo, infers, result_strs, generations >>
       ELSE \E np_res \in ResultArrays :
            /\ gasked' = Append(gasked, TRUE)
            /\ infers' = Append(infers, [kind |-> "infer", model |-> model_name])
            /\ result_strs' = Append(result_strs, Join(np_res.tokens))
            /\ generations' = Append(generations, Join(np_res.tokens))
            /\ todo' = todo - 1
            /\ gpc' = IF todo = 1 THEN "done" ELSE "request"
    /\ UNCHANGED << ready, trimVars, loadRest, streamVars, buildVars >>

(* lines 153-162 and 208-226: one turn of the loop of _generate.  _request *)
(* raises when is_model_ready answers false; otherwise it sends the        *)
(* request, joins the decoded text_output and returns it trimmed.          *)
_request ==
    /\ gpc = "request"
    /\ IF ~ready
       THEN /\ gasked' = Append(gasked, FALSE)
            /\ gpc' = "raised"
            /\ UNCHANGED << todo, infers, result_strs, generations >>
       ELSE \E np_res \in ResultArrays :
            /\ gasked' = Append(gasked, TRUE)
            /\ infers' = Append(infers, [kind |-> "infer", model |-> model_name])
            /\ result_strs' = Append(result_strs, Join(np_res.tokens))
            /\ generations' = Append(generations, _trim_batch_response(Join(np_res.tokens)))
            /\ todo' = todo - 1
            /\ gpc' = IF todo = 1 THEN "done" ELSE "request"
    /\ UNCHANGED << ready, trimVars, loadRest, streamVars, buildVars >>

\* the server stops serving the model between two calls of the client
Unloaded ==
    /\ gpc = "request"
    /\ ready
    /\ ready' = FALSE
    /\ UNCHANGED << generateVars, trimVars, loadRest, streamVars, buildVars >>

(***************************************************************************)
(* Specifications.                                                         *)
(***************************************************************************)
InitTrim ==
    /\ tpc = "call"
    /\ result_str \in Texts \cup Examples
    /\ generated = <<>>
    /\ trimmed = <<>>
    /\ LoadIdle
    /\ ready = FALSE
    /\ StreamIdle
    /\ BuildIdle
    /\ GenerateIdle

NextTrim == TrimCall

SpecTrim == InitTrim /\ [][NextTrim]_vars

InitLoad ==
    /\ TrimIdle
    /\ StreamIdle
    /\ BuildIdle
    /\ GenerateIdle
    /\ lpc = "check" /\ ready \in BOOLEAN /\ now = 0 /\ t0 = 0 /\ t1 = 0
    /\ loadRequests = 0 /\ polled = FALSE /\ calls = 1
    /\ firstQuery = "none" /\ lastQuery = "none" /\ sawReady = FALSE

NextLoad ==
    \/ LoadCheck
    \/ LoadRequest
    \/ LoadPoll
    \/ LoadFinal
    \/ LoadCall
    \/ ServerReady
    \/ ServerUnload
    \/ Tick

SpecLoad == InitLoad /\ [][NextLoad]_vars

\* the calling thread runs, and the wall clock advances
FairSpecLoad == SpecLoad /\ WF_vars(LoadStep) /\ WF_vars(Tick)

InitStream(S) ==
    /\ TrimIdle
    /\ LoadIdle
    /\ BuildIdle
    /\ GenerateIdle
    /\ ready \in BOOLEAN
    /\ model_name \in ModelNames
    /\ pc = [s \in Streams |-> IF s \in S THEN "idle" ELSE "unused"]
    /\ request_id = [s \in Streams |-> 0]
    /\ force_batch = [s \in Streams |-> FALSE]
    /\ stop_words = [s \in Streams |-> {}]
    /\ queue = [s \in Streams |-> << >>]
    /\ observed = [s \in Streams |-> << >>]
    /\ sink = NoSink
    /\ live = {}
    /\ wire = << >>
    /\ closes = 0
    /\ delivered = [s \in Streams |-> << >>]
    /\ asked = [s \in Streams |-> << >>]

\* one streaming call on the session
Init == InitStream({1})

Next ==
    \/ LoadModelCall(1)
    \/ _stream(1)
    \/ ForcedBatchStream(1)
    \/ async_stream_infer(1)
    \/ \E c \in Chunks : Deliver(1, c)
    \/ __next__(1)
    \/ Abandon(1)

Spec == Init /\ [][Next]_vars

\* two streaming calls of _stream on the same session
InitTwo == InitStream(Streams)

NextTwo ==
    \E s \in Streams :
        \/ LoadModelCall(s)
        \/ _stream(s)
        \/ async_stream_infer(s)
        \/ \E c \in ChunksTwo : Deliver(s, c)
        \/ __next__(s)
        \/ Abandon(s)

SpecTwo == InitTwo /\ [][NextTwo]_vars

\* the chunks of the specification of both delivery modes: a text that the
\* trimmer would change, and the bare final flag
ChunksInfer ==
    { c \in Chunks :
        /\ ~c.error /\ ~c.bad
        /\ \/ c.outputs /\ ~c.final /\ c.np_res.tokens = << << "a" >>, << EOS >> >>
           \/ ~c.outputs /\ c.final }

\* one streaming call and one call of _generate on the same object
InitInfer ==
    /\ TrimIdle
    /\ LoadIdle
    /\ BuildIdle
    /\ ready \in BOOLEAN
    /\ model_name \in ModelNames
    /\ pc = [s \in Streams |-> IF s = 1 THEN "idle" ELSE "unused"]
    /\ request_id = [s \in Streams |-> 0]
    /\ force_batch = [s \in Streams |-> FALSE]
    /\ stop_words = [s \in Streams |-> {}]
    /\ queue = [s \in Streams |-> << >>]
    /\ observed = [s \in Streams |-> << >>]
    /\ sink = NoSink
    /\ live = {}
    /\ wire = << >>
    /\ closes = 0
    /\ delivered = [s \in Streams |-> << >>]
    /\ asked = [s \in Streams |-> << >>]
    /\ gpc = "idle" /\ gasked = << >> /\ todo \in 1..MaxPrompts
    /\ infers = << >> /\ result_strs = << >> /\ generations = << >>

NextInfer ==
    \/ LoadModelCall(1)
    \/ _stream(1)
    \/ ForcedBatchStream(1)
    \/ async_stream_infer(1)
    \/ \E c \in ChunksInfer : Deliver(1, c)
    \/ __next__(1)
    \/ Abandon(1)
    \/ GenerateLoad
    \/ _request
    \/ Unloaded

SpecInfer == InitInfer /\ [][NextInfer]_vars

\* the object's fields, in values its buffers hold exactly
FieldSets ==
    [tokens : {1, 100}, top_k : {1, 40}, top_p : {0}, temperature : {1, 2},
     repetition_penalty : {1}, length_penalty : {1}, beam_width : {1}]
KwargSets == { << >>, [temperature |-> 0], [tokens |-> 300, top_k |-> 2] }
Prompts == {"p", "q"}
Seeds == {42, 7}

InitBuild ==
    /\ TrimIdle
    /\ LoadIdle
    /\ ready = FALSE
    /\ StreamIdle
    /\ GenerateIdle
    /\ bpc = "call"
    /\ fields \in FieldSets
    /\ seed \in Seeds
    /\ kwargs \in KwargSets
    /\ prompt \in Prompts
    /\ mode = "none" /\ inputs = << >> /\ stop_request = << >>

NextBuild ==
    \/ StreamInputs
    \/ RequestInputs
    \/ SendStopSignals

SpecBuild == InitBuild /\ [][NextBuild]_vars

(***************************************************************************)
(* Properties.                                                             *)
(***************************************************************************)
Vals(entries) == [i \in 1..Len(entries) |-> entries[i].val]
TextEntries(entries) == SelectSeq(entries, LAMBDA e : ~e.nil)
Sentinels(entries) == SelectSeq(entries, LAMBDA e : e.nil)
Running(s) == pc[s] \in {"pulling", "done", "abandoned"}
StopRequests(rid) == SelectSeq(wire, LAMBDA r : r.kind = "stop" /\ r.rid = rid)

\* the server delivered a chunk carrying the final flag for call s
FinalDelivered(s) ==
    \E i \in 1..Len(delivered[s]) : ~delivered[s][i].error /\ delivered[s][i].final

\* the text of a chunk of call s: decoded and, if forced-batch, trimmed
ChunkText(s, c) ==
    IF force_batch[s] THEN _trim_batch_response(Join(c.np_res.tokens))
    ELSE Join(c.np_res.tokens)

\* every chunk delivered for call s so far is a response that decodes, and
\* no chunk's text is one of the call's stop words
Clean(s) ==
    \A i \in 1..Len(delivered[s]) :
        LET c == delivered[s][i]
        IN  ~c.error /\ ~c.bad /\ (c.outputs => ChunkText(s, c) \notin stop_words[s])

RECURSIVE TextsOf(_, _)
TextsOf(s, cs) ==
    IF cs = << >> THEN << >>
    ELSE (IF Head(cs).outputs THEN << ChunkText(s, Head(cs)) >> ELSE << >>)
         \o TextsOf(s, Tail(cs))

(* C1: every streaming call of _stream that submitted its generation      *)
(* request and then left the stream, by the sentinel or by the consumer    *)
(* abandoning it, has sent a stop request for its request identifier.      *)
(* (Stop requests are sent only by the step that ends the iteration, so    *)
(* a call that left without one never sends it.)                           *)
C1_StopSignalOnEveryExit ==
    \A s \in Streams :
        (pc[s] \in {"done", "abandoned"} /\ ~force_batch[s])
            => StopRequests(request_id[s]) # << >>

(* C2: an error value the transport hands the callback is never returned   *)
(* to the consumer as a token.                                             *)
C2_ErrorNeverAToken ==
    \A s \in Streams : \A i \in 1..Len(observed[s]) : ~observed[s][i].err

(* C3: in one streaming call whose chunks all decode, are not errors and   *)
(* carry no stop word, no text is lost, duplicated or reordered between    *)
(* the callback and the consumer; the sentinel appears once, with the      *)
(* final flag and after every text; and the iteration ends only then,      *)
(* having returned exactly the texts of the text-bearing chunks in         *)
(* delivery order.                                                         *)
C3_ExactTokens ==
    \A s \in Streams :
        (Running(s) /\ Clean(s)) =>
            /\ Vals(observed[s]) \o Vals(TextEntries(queue[s])) = TextsOf(s, delivered[s])
            /\ (pc[s] = "done" =>
                    /\ FinalDelivered(s)
                    /\ Vals(observed[s]) = TextsOf(s, delivered[s])
                    /\ queue[s] = << >>
                    /\ closes = 1)
            /\ ((FinalDelivered(s) /\ pc[s] # "done") =>
                    /\ Len(Sentinels(queue[s])) = 1
                    /\ queue[s][Len(queue[s])].nil)
            /\ (~FinalDelivered(s) => Sentinels(queue[s]) = << >> /\ pc[s] # "done")

C3_Witness ==
    /\ pc[1] = "done" /\ Clean(1) /\ force_batch[1]
    /\ Len(observed[1]) = 2
    /\ delivered[1][Len(delivered[1])].outputs
    /\ \E i \in 1..Len(delivered[1]) :
          delivered[1][i].outputs /\ ChunkText(1, delivered[1][i]) # Join(delivered[1][i].np_res.tokens)

\* the first chunk of call s whose text is one of its stop words, 0 if none
StopIdx(s) ==
    LET hits == { i \in 1..Len(delivered[s]) :
                    LET c == delivered[s][i]
                    IN  ~c.error /\ c.outputs /\ ~c.bad /\ ChunkText(s, c) \in stop_words[s] }
    IN  IF hits = {} THEN 0 ELSE CHOOSE i \in hits : \A j \in hits : i <= j

\* the chunks before the k-th that put a text on the queue
TextsBefore(s, k) ==
    Cardinality({ j \in 1..(k - 1) : delivered[s][j].outputs /\ ~delivered[s][j].bad })

(* C4: when the text of a chunk (decoded and, if forced-batch, trimmed:    *)
(* the text line 358 compares) equals a stop word of the request, the      *)
(* sentinel stands in the queue in its place, no token the consumer gets   *)
(* is a stop word, and the iteration ends there: the consumer gets the     *)
(* texts of the earlier chunks and nothing of the later ones.              *)
C4_StopWordEndsStream ==
    \A s \in Streams :
        LET k == StopIdx(s)
            n == TextsBefore(s, k)
            all == observed[s] \o queue[s]
        IN  (Running(s) /\ k # 0) =>
                /\ \A i \in 1..Len(observed[s]) : observed[s][i].val \notin stop_words[s]
                /\ Len(observed[s]) <= n
                /\ (pc[s] = "done" => Len(observed[s]) = n)
                /\ (pc[s] # "done" =>
                        /\ Len(all) > n
                        /\ all[n + 1].nil
                        /\ \A i \in 1..n : ~all[i].nil)

C4_Witness ==
    /\ StopIdx(1) = 2
    /\ Len(delivered[1]) = 3
    /\ pc[1] = "done"
    /\ Len(observed[1]) = 1
    /\ TextEntries(queue[1]) # << >>

(* C5: once a chunk with the final flag was delivered, a consumer that is  *)
(* still pulling finds a sentinel in its queue, so its iteration ends      *)
(* after the texts before it instead of blocking.  (Nothing more is        *)
(* delivered for the request after the final flag, so a queue without a    *)
(* sentinel then never gets one.)                                          *)
C5_FinalChunkEndsStream ==
    \A s \in Streams :
        (FinalDelivered(s) /\ pc[s] = "pulling") => Sentinels(queue[s]) # << >>

(* C6: a stream of _stream that the consumer abandoned before any          *)
(* sentinel was popped has exactly one stop request on the wire for its    *)
(* request identifier.                                                     *)
C6_CancelSendsOneStop ==
    \A s \in Streams :
        (pc[s] = "abandoned" /\ ~force_batch[s])
            => Len(StopRequests(request_id[s])) = 1

(* C7: with two calls on one session under distinct request identifiers,   *)
(* every token a consumer gets was decoded from a chunk of its own         *)
(* request.                                                                *)
C7_NoForeignToken ==
    request_id[1] # request_id[2] =>
        \A s \in Streams : \A i \in 1..Len(observed[s]) : observed[s][i].src = s

(* C8: _load_model terminates; it returns only after is_model_ready        *)
(* answered true to its last query, it raises only after is_model_ready    *)
(* answered false to its first and to its last query, and when no query    *)
(* was answered true it raises, and not before the timeout has passed.     *)
C8_LoadWaitTerminates ==
    /\ [](lpc = "returned" => lastQuery = "true")
    /\ [](lpc = "raised" => firstQuery = "false" /\ lastQuery = "false")
    /\ []((lpc \in {"returned", "raised"} /\ ~sawReady)
            => (lpc = "raised" /\ t1 - t0 >= LoadTimeout))
    /\ [](lpc \in {"check", "load", "poll", "final"} => <>(lpc \in {"returned", "raised"}))

C8_Witness ==
    /\ lpc = "raised" /\ firstQuery = "false" /\ ~sawReady /\ polled
    /\ t1 - t0 >= LoadTimeout

(* C9: a call of _load_model that finds the model ready at line 127 sends  *)
(* no load request, never enters the polling loop and returns; a call      *)
(* that finds it not ready has sent exactly one load request by the time   *)
(* it polls, and sends no other.                                           *)
C9_LoadIdempotent ==
    /\ loadRequests <= 1
    /\ (firstQuery = "true" =>
            lpc = "returned" /\ loadRequests = 0 /\ ~polled /\ lastQuery = "true")
    /\ ((firstQuery = "false" /\ lpc # "load") => loadRequests = 1)
    /\ ((polled \/ lpc \in {"poll", "final"}) => loadRequests = 1)

C9_Witness ==
    /\ calls = 2 /\ firstQuery = "true" /\ lpc = "returned" /\ loadRequests = 0

Occurrences(t, sym) == { i \in 1..Len(t) : t[i] = sym }

(* C10 as stated: the continuation the trimmer isolates is everything      *)
(* after the last occurrence of "[/INST]" in its argument, the whole       *)
(* argument when the delimiter is absent.                                  *)
C10_ContinuationAfterLast ==
    tpc = "done" => generated = AfterLast(result_str, INST)

(* C10 as amended: the continuation the trimmer isolates is everything     *)
(* after the first occurrence of "[/INST]" in its argument (later          *)
(* occurrences stay in it), the whole argument when the delimiter is       *)
(* absent.                                                                 *)
C10_ContinuationAfterFirst ==
    tpc = "done" =>
        IF Occurrences(result_str, INST) = {}
        THEN generated = result_str
        ELSE \E i \in Occurrences(result_str, INST) :
                /\ \A j \in Occurrences(result_str, INST) : i <= j
                /\ generated = SubSeq(result_str, i + 1, Len(result_str))

C10_Witness ==
    /\ tpc = "done"
    /\ Cardinality(Occurrences(result_str, INST)) = 2
    /\ Cardinality(Occurrences(generated, INST)) = 1
    /\ Len(generated) = 2

(* C11 as stated: the trimmer returns "hello world" for                    *)
(* "...[/INST] hello world</s> extra", "no delimiter text" for             *)
(* "no delimiter text", and "no end token", without the space after the    *)
(* delimiter, for "...[/INST] no end token".                               *)
C11_ExamplesAsStated ==
    tpc = "done" =>
        /\ (result_str = Example1 => trimmed = << "hello", SP, "world" >>)
        /\ (result_str = Example2 => trimmed = Example2)
        /\ (result_str = Example3 => trimmed = << "no", SP, "end", SP, "token" >>)

(* C11 as amended: the first two results as stated; for                    *)
(* "...[/INST] no end token" the trimmer returns " no end token", the      *)
(* space that follows the delimiter included (no end marker, no strip).    *)
C11_Examples ==
    tpc = "done" =>
        /\ (result_str = Example1 => trimmed = << "hello", SP, "world" >>)
        /\ (result_str = Example2 => trimmed = Example2)
        /\ (result_str = Example3 => trimmed = << SP, "no", SP, "end", SP, "token" >>)

C11_Witness ==
    tpc = "done" /\ result_str = Example3 /\ Len(trimmed) = 6

\* t is u with whitespace removed from both ends
IsStripOf(t, u) ==
    /\ (t # << >> => t[1] # SP /\ t[Len(t)] # SP)
    /\ \E i \in 1..(Len(u) + 1) :
          /\ \A k \in 1..(i - 1) : u[k] = SP
          /\ Len(u) - (i - 1) >= Len(t)
          /\ t = SubSeq(u, i, i + Len(t) - 1)
          /\ \A k \in (i + Len(t))..Len(u) : u[k] = SP

(* C18: with the continuation isolated, if it holds the marker "</s>" the  *)
(* result is the continuation cut before the first marker with whitespace  *)
(* removed from both ends; if it holds none, the result is the             *)
(* continuation itself, whitespace kept.                                   *)
C18_EndMarker ==
    tpc = "done" =>
        IF Occurrences(generated, EOS) = {}
        THEN trimmed = generated
        ELSE \E k \in Occurrences(generated, EOS) :
                /\ \A j \in Occurrences(generated, EOS) : k <= j
                /\ IsStripOf(trimmed, SubSeq(generated, 1, k - 1))

C18_Witness ==
    /\ tpc = "done"
    /\ result_str = << SP, "a", SP, EOS >>
    /\ trimmed = << "a" >>

\* the caller's pull of call s takes a sentinel or a stop word off its queue
PopsEnd(s) ==
    /\ pc[s] = "pulling"
    /\ queue[s] # << >>
    /\ queue'[s] = Tail(queue[s])
    /\ (Head(queue[s]).nil \/ Head(queue[s]).val \in stop_words[s])

(* C13: in a streaming call of _stream, the pull that takes a sentinel or  *)
(* a stop word off the queue returns no token, and in that same pull,      *)
(* before StopIteration, a stop request is sent that carries the request   *)
(* identifier of the call's generation request.                            *)
C13_SentinelPullSendsStop ==
    [][ \A s \in Streams :
          (PopsEnd(s) /\ ~force_batch[s]) =>
              /\ observed'[s] = observed[s]
              /\ pc'[s] = "done"
              /\ Len(wire') = Len(wire) + 1
              /\ wire'[Len(wire')].kind = "stop"
              /\ wire'[Len(wire')].rid = request_id[s]
              /\ \E i \in 1..Len(wire) :
                    wire[i].kind = "generate" /\ wire[i].rid = request_id[s] ]_vars

C13_Witness ==
    /\ pc[1] = "done" /\ ~force_batch[1]
    /\ observed[1] # << >>
    /\ Len(wire) = 2
    /\ wire[1].kind = "generate" /\ wire[2].kind = "stop"
    /\ wire[1].rid = wire[2].rid

\* a chunk delivered for call s did not decode
BadDelivered(s) ==
    \E i \in 1..Len(delivered[s]) :
        LET c == delivered[s][i] IN ~c.error /\ c.outputs /\ c.bad

(* C14: after a chunk that does not decode, the consumer is not left       *)
(* waiting on an empty queue for a server that has nothing more to send:   *)
(* the failure, or something that ends the iteration, is on the queue.     *)
C14_MalformedChunkEndsStream ==
    \A s \in Streams :
        (BadDelivered(s) /\ pc[s] = "pulling" /\ s \notin live) => queue[s] # << >>

(* C15: in a streaming call the sink is armed before the generation        *)
(* request is submitted: while the server may deliver chunks of the call's *)
(* request, the session's armed sink is the call's own, and each chunk is  *)
(* delivered into the call's own queue.                                    *)
C15_SinkArmedBeforeRequest ==
    \A s \in Streams :
        /\ (s \in live => sink = s)
        /\ (delivered[s] # << >> => pc[s] \in {"pulling", "done", "abandoned"})
        /\ \A q \in Streams : \A i \in 1..Len(queue[q]) :
              queue[q][i].src = s => q = s

C15_Witness ==
    /\ 1 \in live /\ sink = 1
    /\ Len(delivered[1]) = 2
    /\ Len(queue[1]) = 2

(* C20: over one streaming call of _stream at most one stop request is     *)
(* sent for its request identifier and the session's stream is closed at   *)
(* most once, also when more than one sentinel was put on the queue; and   *)
(* once StopIteration was raised nothing more is taken off the queue.      *)
C20_AtMostOneStop ==
    /\ [](\A s \in Streams :
            /\ Len(SelectSeq(wire, LAMBDA r : r.kind = "stop")) <= 1
            /\ Len(StopRequests(request_id[s])) <= 1
            /\ closes <= 1)
    /\ [][ \A s \in Streams :
            pc[s] = "done" =>
                /\ pc'[s] = "done"
                /\ observed'[s] = observed[s]
                /\ Len(queue'[s]) >= Len(queue[s]) ]_vars

C20_Witness ==
    /\ pc[1] = "done" /\ ~force_batch[1]
    /\ Sentinels(queue[1]) # << >>
    /\ Len(StopRequests(request_id[1])) = 1
    /\ closes = 1

\* the buffer of that name in a list of buffers
Buffers(list, name) == { i \in 1..Len(list) : list[i].name = name }
\* the value the call passes for parameter k: the keyword argument, else the field
Effective(k) == IF k \in DOMAIN kwargs THEN kwargs[k] ELSE fields[k]
ContractTypes ==
    [text_input |-> "BYTES", max_tokens |-> "UINT32", top_k |-> "UINT32",
     top_p |-> "FP32", temperature |-> "FP32", length_penalty |-> "FP32",
     repetition_penalty |-> "FP32", random_seed |-> "UINT64",
     beam_width |-> "UINT32", stream |-> "BOOL"]
ContractValues ==
    [text_input |-> prompt, max_tokens |-> Effective("tokens"),
     top_k |-> Effective("top_k"), top_p |-> Effective("top_p"),
     temperature |-> Effective("temperature"),
     length_penalty |-> Effective("length_penalty"),
     repetition_penalty |-> Effective("repetition_penalty"),
     random_seed |-> seed, beam_width |-> Effective("beam_width"),
     stream |-> (mode = "stream")]

(* C12: for the generation parameters of a call, the list the request      *)
(* builder returns is fixed by the call's input (fields, keyword           *)
(* arguments, prompt, seed and delivery mode): it holds each of the ten    *)
(* contract buffers exactly once and nothing else, each a batch of one of  *)
(* the contract's type holding the parameter's value, and the stream       *)
(* buffer is true for the call of _stream and false for that of _request.  *)
C12_BuilderContract ==
    bpc \in {"built", "stopped"} =>
        /\ Len(inputs) = 10
        /\ \A n \in DOMAIN ContractTypes :
             /\ Cardinality(Buffers(inputs, n)) = 1
             /\ \A i \in Buffers(inputs, n) :
                  /\ inputs[i].datatype = ContractTypes[n]
                  /\ inputs[i].shape = << 1, 1 >>
                  /\ inputs[i].data = << ContractValues[n] >>

C12_Witness ==
    /\ bpc = "built" /\ mode = "single"
    /\ DOMAIN kwargs = {"temperature"}
    /\ \E i \in Buffers(inputs, "stream") : inputs[i].data = << FALSE >>
    /\ \E i \in Buffers(inputs, "temperature") : inputs[i].data = << 0 >>

\* the three stop buffers whose content the code fixes
StopBuffersFixed(list) ==
    /\ Len(list) = 4
    /\ \A n \in {"input_ids", "input_lengths", "request_output_len", "stop"} :
         Cardinality(Buffers(list, n)) = 1
    /\ \A i \in Buffers(list, "input_ids") : list[i].datatype = "INT32"
    /\ \A i \in Buffers(list, "input_lengths") :
         list[i].datatype = "INT32" /\ list[i].data = << 0 >>
    /\ \A i \in Buffers(list, "request_output_len") :
         list[i].datatype = "UINT32" /\ list[i].data = << 0 >>
    /\ \A i \in Buffers(list, "stop") :
         list[i].datatype = "BOOL" /\ list[i].data = << TRUE >>

(* C19 as stated: every stop request consists of exactly the four buffers  *)
(* input_ids (int32, zero-length), input_lengths (int32, one zero),        *)
(* request_output_len (uint32, one zero) and stop (bool, one true), and is *)
(* marked as a streaming-control request, whatever the generation          *)
(* parameters.                                                             *)
C19_StopRequestAsStated ==
    bpc = "stopped" =>
        /\ StopBuffersFixed(stop_request.inputs)
        /\ \A i \in Buffers(stop_request.inputs, "input_ids") :
             stop_request.inputs[i].data = << >>
        /\ stop_request.parameters = [Streaming |-> TRUE]

(* C19 as amended: as stated, except that input_ids is a 1x1 int32 buffer  *)
(* holding one element of unspecified value (np.empty does not initialise  *)
(* it); everything else in the request is the same for all generation      *)
(* parameters.                                                             *)
C19_StopRequest ==
    bpc = "stopped" =>
        /\ StopBuffersFixed(stop_request.inputs)
        /\ \A i \in 1..Len(stop_request.inputs) :
             /\ stop_request.inputs[i].shape = << 1, 1 >>
             /\ Len(stop_request.inputs[i].data) = 1
        /\ stop_request.parameters = [Streaming |-> TRUE]

C19_Witness ==
    /\ bpc = "stopped"
    /\ DOMAIN kwargs = {"tokens", "top_k"}
    /\ \E i \in Buffers(stop_request.inputs, "input_ids") :
          stop_request.inputs[i].data = << 7 >>

\* the answers of is_model_ready to _request, those to _load_model left out
RequestAnswers ==
    IF gasked = << >> THEN << >>
    ELSE SubSeq(gasked, (IF gasked[1] THEN 2 ELSE 3), Len(gasked))

GenerateRequests(rid) == SelectSeq(wire, LAMBDA r : r.kind = "generate" /\ r.rid = rid)

(* C16 as stated: a call that finds the model not ready fails with an      *)
(* error and sends nothing, and every inference request sent follows a     *)
(* readiness query of the same call that returned true.                    *)
C16_FailFastWhenNotReady ==
    /\ \A s \in Streams :
         /\ (asked[s] # << >> /\ ~asked[s][1]) => pc[s] = "raised"
         /\ (pc[s] \in {"pulling", "done", "abandoned"}) => asked[s][Len(asked[s])]
    /\ (gasked # << >> /\ ~gasked[1]) => (gpc = "raised" /\ infers = << >>)
    /\ infers # << >> => \E i \in 1..Len(gasked) : gasked[i]

(* C16 as amended: _request fails at once, sending nothing, when its       *)
(* readiness query returns false; _stream and _generate first run          *)
(* _load_model, which on a model that is not ready requests the load and   *)
(* waits, and raises only if the model is still not ready when the wait    *)
(* ends; every inference request sent, single-shot or streamed, follows a  *)
(* readiness query of the same call that returned true.                    *)
C16_ReadyBeforeInference ==
    /\ [](/\ \A s \in Streams :
               /\ (pc[s] \in {"loaded", "armed", "pulling", "done", "abandoned"}) =>
                      (asked[s] # << >> /\ asked[s][Len(asked[s])])
               /\ (asked[s] # << >> /\ ~asked[s][Len(asked[s])]) =>
                      (pc[s] = "raised" /\ GenerateRequests(request_id[s]) = << >>)
          /\ Len(infers) = Len(SelectSeq(RequestAnswers, LAMBDA a : a))
          /\ \A i \in 1..Len(RequestAnswers) :
               ~RequestAnswers[i] => (i = Len(RequestAnswers) /\ gpc = "raised")
          /\ (gasked # << >> /\ ~gasked[Len(gasked)]) => gpc = "raised")
    /\ [][ /\ Len(infers') > Len(infers) => (ready /\ gasked' = Append(gasked, TRUE))
           /\ Len(wire') > Len(wire) /\ wire'[Len(wire')].kind = "generate" =>
                \E s \in Streams : pc[s] = "armed" /\ asked[s][Len(asked[s])] ]_vars

C16_Witness ==
    /\ asked[1] = << FALSE, TRUE >> /\ pc[1] = "pulling"
    /\ gpc = "raised" /\ Len(infers) = 1
    /\ gasked = << TRUE, TRUE, FALSE >>

\* the texts call s holds or has handed out are those of f applied to its chunks
EntriesAre(s, f(_)) ==
    \A e \in { observed[s][i] : i \in 1..Len(observed[s]) }
             \cup { queue[s][i] : i \in 1..Len(queue[s]) } :
        (~e.nil /\ ~e.err) =>
            \E i \in 1..Len(delivered[s]) :
                delivered[s][i].outputs /\ e.val = f(Join(delivered[s][i].np_res.tokens))

Untrimmed(t) == t

(* C17 as stated: the trimming rule is applied only in forced-batch        *)
(* streaming: the text _request returns is the decoded text, untrimmed,    *)
(* and so are the chunks of a stream opened without forced-batch mode.     *)
C17_TrimOnlyForcedBatch ==
    /\ \A i \in 1..Len(generations) : generations[i] = result_strs[i]
    /\ \A s \in Streams : ~force_batch[s] => EntriesAre(s, Untrimmed)

(* C17 as amended: the trimming rule is applied to the text of every       *)
(* single-shot call (_request returns the decoded text trimmed) and to the *)
(* chunks of a forced-batch stream, and never to the chunks of a stream    *)
(* opened without forced-batch mode.                                       *)
C17_TrimWhereApplied ==
    /\ Len(generations) = Len(result_strs)
    /\ \A i \in 1..Len(generations) :
         generations[i] = _trim_batch_response(result_strs[i])
    /\ \A s \in Streams :
         IF force_batch[s] THEN EntriesAre(s, _trim_batch_response)
         ELSE EntriesAre(s, Untrimmed)

C17_Witness ==
    /\ gpc = "done"
    /\ generations = << << "a" >> >>
    /\ result_strs = << << "a", EOS >> >>
    /\ ~force_batch[1]
    /\ Len(observed[1]) = 1
    /\ observed[1][1].val = << "a", EOS >>

(* C21: every stop request sent when a stream ends is addressed to the     *)
(* model name of the generation request that carries the same request      *)
(* identifier, whatever model name is configured.                          *)
C21_StopSameModel ==
    \A i \in 1..Len(wire) :
        wire[i].kind = "stop" =>
            \E j \in 1..(i - 1) :
                /\ wire[j].kind = "generate"
                /\ wire[j].rid = wire[i].rid
                /\ wire[j].model = wire[i].model

====
